---- MODULE Spec2Model ----
(***************************************************************************)
(* Model of meile_outlet_checker: the daily job that downloads the price   *)
(* list, promotes it to the cache when its bytes changed, scans its pages  *)
(* for the configured codes and sends a notification.                      *)
(*                                                                         *)
(* Text is a sequence of one-character strings.  A file's content is a     *)
(* sequence of chunks; for a complete document each chunk is the raw text  *)
(* of one page, so that the text extraction of a cached document is the    *)
(* sequence of its chunks.  A path with no file holds Absent.              *)
(***************************************************************************)
EXTENDS Integers, Sequences, FiniteSets, TLC

VARIABLES
    once,          \* --once flag
    number,        \* --number option (None when not given)
    recipients,    \* --recipients option (None when not given)
    input_data,    \* Input.codes: sequence of CodeInfo
    sameFs,        \* environment: temp dir and cache dir on one filesystem
    pc,            \* position of the process
    counter,       \* parse_and_notify_pdf: counter
    replaced,      \* parse_and_notify_pdf: replaced
    old_file,      \* content of the file at directory / file (the cache)
    new_file,      \* content of the file at tmpdir / filename (the candidate)
    results,       \* per code, the `matches` list built by the scan
    found_matches, \* parse_and_notify_pdf: found_matches
    buffer,        \* lines printed to the StringIO console
    cycle,         \* history: number of job runs started
    fetches,       \* history: GET requests issued in this job run
    waits,         \* history: sleep(60) calls made in this job run
    ridPre,        \* history: candidate and target at the last call of replace_if_different
    ridRet,        \* return value of the last call of replace_if_different
    ridTrue,       \* history: replace_if_different returned True in this job run
    scanned,       \* history: the scan ran in this job run
    sent,          \* history: payloads posted to the Signal endpoint in this job run
    outputs,       \* history: the `output` texts produced in this job run
    outcome,       \* history: how the last job run ended
    prevOutcome,   \* history: how the job run before this one ended
    fetched        \* history: content of the last successful GET of this job run

confVars == <<once, number, recipients, input_data, sameFs>>
fileVars == <<old_file, new_file>>
loopVars == <<counter, replaced>>
scanVars == <<results, found_matches, buffer>>
ridVars  == <<ridPre, ridRet>>
histVars == <<cycle, fetches, waits, ridTrue, scanned, sent, outputs, outcome, prevOutcome, fetched>>
vars == <<confVars, pc, fileVars, loopVars, scanVars, ridVars, histVars>>

----------------------------------------------------------------------------
(* Bounds and program constants *)

MaxCycles == 2

MaxAttempts == 90

(* The longest code and the longest page text of the matching harness. *)
MaxCodeLen == 2
MaxPageLen == 4

None == "None"

(* The content of a path: no file, or a file with its chunks. *)
Absent == [exists |-> FALSE, data |-> << >>]
File(data) == [exists |-> TRUE, data |-> data]

(* An Optional[list[str]] option: not given, or the list given. *)
NoList == [given |-> FALSE, items |-> << >>]
List(items) == [given |-> TRUE, items |-> items]

NoCall == [candidate |-> Absent, target |-> Absent, called |-> FALSE]

Whitespace == {" ", "\n"}

Url == <<"https://application.miele.co.uk/resources/pdf/MieleOutletPricelist.pdf">>

(* The documents the upstream URL can serve: sequences of raw page text. *)
DocA == << <<"x", "A", "1", "y">>, <<"A", " ", "1", "\n", "Z", "Z">> >>
DocB == << <<"Z", "Z", "Z">> >>
DocC == << <<"x", " ", "y">>, << >> >>
Docs == {DocA, DocB, DocC}

(* The configurations of input.json. *)
InputA1 == << [code |-> <<"A", "1">>, extra |-> <<"w">>],
              [code |-> <<"Z", " ", "Z">>, extra |-> <<"d">>] >>
InputQ  == << [code |-> <<"Q">>, extra |-> <<"o">>],
              [code |-> <<"A", "1">>, extra |-> <<"w">>] >>
InputWs == << [code |-> <<" ">>, extra |-> <<"b">>] >>
Inputs == {InputA1, InputQ, InputWs}

Numbers == {None, "+441"}
RecipientLists == {NoList, List(<< >>), List(<<"+442">>)}

----------------------------------------------------------------------------
(* Sequence helpers *)

RECURSIVE Concat(_)
Concat(ss) == IF ss = << >> THEN << >> ELSE Head(ss) \o Concat(Tail(ss))

RECURSIVE SumSeq(_)
SumSeq(ns) == IF ns = << >> THEN 0 ELSE Head(ns) + SumSeq(Tail(ns))

----------------------------------------------------------------------------
(* Text normalisation and matching *)

(* str.split(): the maximal runs of non-whitespace characters, in order. *)
RECURSIVE SplitWords(_, _)
SplitWords(text, word) ==
    IF text = << >>
    THEN IF word = << >> THEN << >> ELSE <<word>>
    ELSE IF Head(text) \in Whitespace
         THEN (IF word = << >> THEN << >> ELSE <<word>>) \o SplitWords(Tail(text), << >>)
         ELSE SplitWords(Tail(text), Append(word, Head(text)))

(* Mutant of Normalize: text.replace(" ", ""), which keeps line breaks. *)
Normalize_SpacesOnly(text) == SelectSeq(text, LAMBDA c : c # " ")

(* "".join(text.split()) *)
Normalize(text) == Concat(SplitWords(text, << >>))

(* Mutant of FindNearMatches: the search resumes after the end of a match. *)
FindNearMatches_NonOverlapping(subsequence, sequence) ==
    LET n == Len(subsequence)
        RECURSIVE From(_)
        From(i) ==
            IF i + n - 1 > Len(sequence) THEN << >>
            ELSE IF SubSeq(sequence, i, i + n - 1) = subsequence
                 THEN << [start |-> i - 1, end |-> i - 1 + n, dist |-> 0,
                          matched |-> SubSeq(sequence, i, i + n - 1)] >> \o From(i + n)
                 ELSE From(i + 1)
    IN  From(1)

(* find_near_matches(subsequence, sequence, max_l_dist=0) for a non-empty *)
(* subsequence: one Match per position where it occurs, left to right.    *)
FindNearMatches(subsequence, sequence) ==
    LET n == Len(subsequence)
        RECURSIVE From(_)
        From(i) ==
            IF i + n - 1 > Len(sequence) THEN << >>
            ELSE IF SubSeq(sequence, i, i + n - 1) = subsequence
                 THEN << [start |-> i - 1, end |-> i - 1 + n, dist |-> 0,
                          matched |-> SubSeq(sequence, i, i + n - 1)] >> \o From(i + 1)
                 ELSE From(i + 1)
    IN  From(1)

(* find_near_matches raises ValueError for an empty subsequence. *)
InvalidQuery(code) == Normalize(code) = << >>

----------------------------------------------------------------------------
(* The scan of one document *)

(* Mutant of ScanCode: matches is assigned, not extended, for every page. *)
ScanCode_LastPage(code, pages) ==
    IF pages = << >> THEN << >>
    ELSE FindNearMatches(Normalize(code), Normalize(pages[Len(pages)]))

(* matches = []; for page in reader.pages: matches.extend(find_near_matches(...)) *)
RECURSIVE ScanCode(_, _)
ScanCode(code, pages) ==
    IF pages = << >> THEN << >>
    ELSE FindNearMatches(Normalize(code), Normalize(Head(pages)))
         \o ScanCode(code, Tail(pages))

(* for code_info in input_data.codes: one match list per code, in order. *)
ScanResults(codes, pages) ==
    [k \in 1..Len(codes) |-> ScanCode(codes[k].code, pages)]

(* The first page of the first code is searched as soon as there is a page. *)
ScanRaises(codes, pages) ==
    pages # << >> /\ \E k \in 1..Len(codes) : InvalidQuery(codes[k].code)

(* One printed line: a format with its integer and its text argument. *)
Line(fmt, n, s) == [fmt |-> fmt, n |-> n, s |-> s]

FoundLine(code_info, matches) ==
    Line("Found {n} matches for '{s}'", Len(matches), code_info.code)
ExtraLine(code_info) == Line("{s}:", 0, code_info.extra)
MatchLine(match) == Line("    '{s}' with {n} differences", match.dist, match.matched)
UrlLine(url) == Line("{s}", 0, url)

(* Mutant of CodeLines: the lines are printed without the test `if matches`. *)
CodeLines_Unguarded(code_info, matches) ==
    <<FoundLine(code_info, matches), ExtraLine(code_info)>>
    \o [i \in 1..Len(matches) |-> MatchLine(matches[i])]

(* if matches: the lines printed to the buffer for one code. *)
CodeLines(code_info, matches) ==
    IF matches = << >> THEN << >>
    ELSE <<FoundLine(code_info, matches), ExtraLine(code_info)>>
         \o [i \in 1..Len(matches) |-> MatchLine(matches[i])]

RECURSIVE BufferLines(_, _)
BufferLines(codes, res) ==
    IF codes = << >> THEN << >>
    ELSE CodeLines(Head(codes), Head(res)) \o BufferLines(Tail(codes), Tail(res))

FoundMatches(res) == \E k \in 1..Len(res) : res[k] # << >>

(* buffer.getvalue().strip(): leading and trailing blank output is dropped. *)
BlankLine(line) == line.fmt = "{s}" /\ \A i \in 1..Len(line.s) : line.s[i] \in Whitespace

RECURSIVE LStrip(_)
LStrip(lines) ==
    IF lines # << >> /\ BlankLine(Head(lines)) THEN LStrip(Tail(lines)) ELSE lines

RECURSIVE RStrip(_)
RStrip(lines) ==
    IF lines # << >> /\ BlankLine(lines[Len(lines)])
    THEN RStrip(SubSeq(lines, 1, Len(lines) - 1)) ELSE lines

GetValueStrip(lines) == RStrip(LStrip(lines))

(* Python truthiness of an Optional[str] and of an Optional[list[str]]. *)
TruthyStr(x) == x # None /\ x # ""
TruthyList(x) == x.given /\ x.items # << >>

(* Mutant of EffectiveRecipients: the recipients are not defaulted. *)
EffectiveRecipients_NoDefault(num, rcpts) == rcpts

(* if number and not recipients: recipients = [number] *)
EffectiveRecipients(num, rcpts) ==
    IF TruthyStr(num) /\ ~TruthyList(rcpts) THEN List(<<num>>) ELSE rcpts

(* if number and recipients: send_signal_message(...) *)
WillSend(num, rcpts) == TruthyStr(num) /\ TruthyList(EffectiveRecipients(num, rcpts))

Payload(message, num, rcpts) ==
    [message |-> message, number |-> num, recipients |-> rcpts.items]

----------------------------------------------------------------------------
(* replace_if_different and shutil.move *)

(* Mutants of ShouldReplace: a missing target is not replaced; always replace. *)
ShouldReplace_OnlyExisting(candidate, target) ==
    target.exists /\ candidate.data # target.data

ShouldReplace_Always(candidate, target) == TRUE

(* Lines 40-46: the move happens unless the target exists with equal bytes. *)
ShouldReplace(candidate, target) ==
    ~target.exists \/ candidate.data # target.data

(* shutil.move renames when source and destination are on one filesystem *)
(* and otherwise copies the source over the destination and unlinks it.   *)
MoveRenames(same) == same

(* The destination after os.rename: the source file itself. *)
Renamed(candidate) == candidate

(* The destination after open(dst, "wb"): an empty file. *)
Truncated == File(<< >>)

(* The destination after one more chunk of the source was copied. *)
CopiedChunk(candidate, target) ==
    File(Append(target.data, candidate.data[Len(target.data) + 1]))

(* Mutant of CopyComplete: the copy stops after its first chunk. *)
CopyComplete_Early(candidate, target) == Len(target.data) >= 1

CopyComplete(candidate, target) == Len(target.data) = Len(candidate.data)

----------------------------------------------------------------------------
(* Initial state: default() after load_input_from_json *)

Init ==
    /\ once \in BOOLEAN
    /\ number \in Numbers
    /\ recipients \in RecipientLists
    /\ input_data \in Inputs
    /\ sameFs \in BOOLEAN
    /\ pc = "main"
    /\ counter = 0
    /\ replaced = FALSE
    /\ old_file \in {Absent} \cup {File(d) : d \in Docs}
    /\ new_file = Absent
    /\ results = << >>
    /\ found_matches = FALSE
    /\ buffer = << >>
    /\ cycle = 0
    /\ fetches = 0
    /\ waits = 0
    /\ ridPre = NoCall
    /\ ridRet = FALSE
    /\ ridTrue = FALSE
    /\ scanned = FALSE
    /\ sent = << >>
    /\ outputs = << >>
    /\ outcome = "none"
    /\ prevOutcome = "none"
    /\ fetched = Absent

----------------------------------------------------------------------------
(* The job: parse_and_notify_pdf *)

(* Lines 90-97: the locals of a fresh call. *)
JobBegin ==
    /\ pc' = "loop"
    /\ counter' = 0
    /\ replaced' = FALSE
    /\ results' = << >>
    /\ found_matches' = FALSE
    /\ buffer' = << >>
    /\ cycle' = cycle + 1
    /\ fetches' = 0
    /\ waits' = 0
    /\ ridPre' = NoCall
    /\ ridRet' = FALSE
    /\ ridTrue' = FALSE
    /\ scanned' = FALSE
    /\ sent' = << >>
    /\ outputs' = << >>
    /\ outcome' = "running"
    /\ prevOutcome' = outcome
    /\ fetched' = Absent
    /\ UNCHANGED <<confVars, fileVars>>

(* Mutant of AfterReturn: the job ends the process instead of returning. *)
AfterReturn_Exits(is_once) == "crashed"

(* The call returns: the process exits (--once) or the scheduler loop resumes. *)
AfterReturn(is_once) == IF is_once THEN "exited" ELSE "idle"

(* An exception nobody catches: neither default() nor run_pending() has a handler. *)
AfterRaise(is_once) == "crashed"

(* Lines 218-228 *)
DefaultOnce ==
    /\ pc = "main"
    /\ once
    /\ JobBegin

(* Lines 230-241 *)
DefaultSchedule ==
    /\ pc = "main"
    /\ ~once
    /\ pc' = "idle"
    /\ UNCHANGED <<confVars, fileVars, loopVars, scanVars, ridVars, histVars>>

(* Mutant of RunPending: the job is also started while a run is sleeping. *)
RunPending_Reentrant ==
    /\ pc \in {"idle", "sleep"}
    /\ cycle < MaxCycles
    /\ JobBegin

(* Lines 242-244: run_pending() calls the job when it is due. *)
RunPending ==
    /\ pc = "idle"
    /\ cycle < MaxCycles
    /\ JobBegin

(* Mutant of LoopContinues: while replaced. *)
LoopContinues_Inverted(rep) == rep

(* Line 98: while not replaced *)
LoopContinues(rep) == ~rep

(* Mutant of BudgetExceeded: if counter >= 90. *)
BudgetExceeded_OffByOne(n) == n >= MaxAttempts

(* Mutant of BudgetExceeded: the budget is tested against the wrong variable. *)
BudgetExceeded_Never(n) == FALSE

(* Line 100: if counter > 90 *)
BudgetExceeded(n) == n > MaxAttempts

(* Lines 98-102: the budget is spent, return. *)
LoopExhausted ==
    /\ pc = "loop"
    /\ LoopContinues(replaced)
    /\ BudgetExceeded(counter + 1)
    /\ counter' = counter + 1
    /\ pc' = AfterReturn(once)
    /\ outcome' = "exhausted"
    /\ UNCHANGED <<confVars, fileVars, replaced, scanVars, ridVars,
                   cycle, fetches, waits, ridTrue, scanned, sent, outputs, prevOutcome, fetched>>

(* Lines 98-104: one more attempt. *)
LoopTry ==
    /\ pc = "loop"
    /\ LoopContinues(replaced)
    /\ ~BudgetExceeded(counter + 1)
    /\ counter' = counter + 1
    /\ pc' = "get"
    /\ UNCHANGED <<confVars, fileVars, replaced, scanVars, ridVars, histVars>>

(* Lines 98, 116: the loop ends, the scan follows. *)
LoopExit ==
    /\ pc = "loop"
    /\ ~LoopContinues(replaced)
    /\ pc' = "parse"
    /\ UNCHANGED <<confVars, fileVars, loopVars, scanVars, ridVars, histVars>>

(* Mutant of GetOk: the content is also written to the cache path. *)
GetOk_WritesCache ==
    /\ pc = "get"
    /\ \E d \in Docs :
        /\ new_file' = File(d)
        /\ old_file' = File(d)
        /\ fetched' = File(d)
    /\ fetches' = fetches + 1
    /\ pc' = "rid"
    /\ UNCHANGED <<confVars, loopVars, scanVars, ridVars,
                   cycle, waits, ridTrue, scanned, sent, outputs, outcome, prevOutcome>>

(* Lines 53-61: the GET succeeds and its content is written to tmp_path. *)
GetOk ==
    /\ pc = "get"
    /\ \E d \in Docs :
        /\ new_file' = File(d)
        /\ fetched' = File(d)
    /\ fetches' = fetches + 1
    /\ pc' = "rid"
    /\ UNCHANGED <<confVars, old_file, loopVars, scanVars, ridVars,
                   cycle, waits, ridTrue, scanned, sent, outputs, outcome, prevOutcome>>

(* Lines 53-54: the GET times out or raise_for_status() raises. *)
GetFail ==
    /\ pc = "get"
    /\ fetches' = fetches + 1
    /\ pc' = AfterRaise(once)
    /\ outcome' = "get_failed"
    /\ UNCHANGED <<confVars, fileVars, loopVars, scanVars, ridVars,
                   cycle, waits, ridTrue, scanned, sent, outputs, prevOutcome, fetched>>

----------------------------------------------------------------------------
(* replace_if_different(new_file, old_file), called at line 63 *)

Called(candidate, target) ==
    [candidate |-> candidate, target |-> target, called |-> TRUE]

(* Mutant of RidMissing: the move is attempted and the target is lost. *)
RidMissing_Moves ==
    /\ pc = "rid"
    /\ ~new_file.exists
    /\ ridPre' = Called(new_file, old_file)
    /\ old_file' = Absent
    /\ ridRet' = FALSE
    /\ pc' = "ret"
    /\ UNCHANGED <<confVars, new_file, loopVars, scanVars, histVars>>

(* Lines 36-38: no candidate, return False. *)
RidMissing ==
    /\ pc = "rid"
    /\ ~new_file.exists
    /\ ridPre' = Called(new_file, old_file)
    /\ ridRet' = FALSE
    /\ pc' = "ret"
    /\ UNCHANGED <<confVars, fileVars, loopVars, scanVars, histVars>>

(* Lines 40-44: the target exists with the same bytes, return False. *)
RidIdentical ==
    /\ pc = "rid"
    /\ new_file.exists
    /\ ~ShouldReplace(new_file, old_file)
    /\ ridPre' = Called(new_file, old_file)
    /\ ridRet' = FALSE
    /\ pc' = "ret"
    /\ UNCHANGED <<confVars, fileVars, loopVars, scanVars, histVars>>

(* Lines 46-47: shutil.move renames the candidate onto the target. *)
RidRename ==
    /\ pc = "rid"
    /\ new_file.exists
    /\ ShouldReplace(new_file, old_file)
    /\ MoveRenames(sameFs)
    /\ ridPre' = Called(new_file, old_file)
    /\ old_file' = Renamed(new_file)
    /\ new_file' = Absent
    /\ ridRet' = TRUE
    /\ ridTrue' = TRUE
    /\ pc' = "ret"
    /\ UNCHANGED <<confVars, loopVars, scanVars, cycle, fetches, waits, scanned,
                   sent, outputs, outcome, prevOutcome, fetched>>

(* Line 46: shutil.move cannot rename; its copy opens the target for writing. *)
RidCopyOpen ==
    /\ pc = "rid"
    /\ new_file.exists
    /\ ShouldReplace(new_file, old_file)
    /\ ~MoveRenames(sameFs)
    /\ ridPre' = Called(new_file, old_file)
    /\ old_file' = Truncated
    /\ pc' = "copy"
    /\ UNCHANGED <<confVars, new_file, loopVars, scanVars, ridRet, histVars>>

(* Line 46: the copy writes the next chunk of the candidate. *)
RidCopyWrite ==
    /\ pc = "copy"
    /\ ~CopyComplete(new_file, old_file)
    /\ old_file' = CopiedChunk(new_file, old_file)
    /\ UNCHANGED <<confVars, pc, new_file, loopVars, scanVars, ridVars, histVars>>

(* Lines 46-47: the copy is complete, the candidate is unlinked, return True. *)
RidCopyDone ==
    /\ pc = "copy"
    /\ CopyComplete(new_file, old_file)
    /\ new_file' = Absent
    /\ ridRet' = TRUE
    /\ ridTrue' = TRUE
    /\ pc' = "ret"
    /\ UNCHANGED <<confVars, old_file, loopVars, scanVars, ridPre, cycle, fetches,
                   waits, scanned, sent, outputs, outcome, prevOutcome, fetched>>

(* Lines 57, 63-65 and 104-113: the temporary directory is removed and *)
(* download_pdf returns; the caller sleeps when nothing was replaced.  *)
DownloadReturn ==
    /\ pc = "ret"
    /\ new_file' = Absent
    /\ replaced' = ridRet
    /\ pc' = IF ridRet THEN "loop" ELSE "sleep"
    /\ UNCHANGED <<confVars, old_file, counter, scanVars, ridVars, histVars>>

(* Line 111: sleep(60) *)
Sleep ==
    /\ pc = "sleep"
    /\ waits' = waits + 1
    /\ pc' = "loop"
    /\ UNCHANGED <<confVars, fileVars, loopVars, scanVars, ridVars, cycle, fetches,
                   ridTrue, scanned, sent, outputs, outcome, prevOutcome, fetched>>

(* Lines 116-150 with a code that has no non-whitespace character: *)
(* find_near_matches raises.                                        *)
ScanRaise ==
    /\ pc = "parse"
    /\ ScanRaises(input_data, old_file.data)
    /\ scanned' = TRUE
    /\ pc' = AfterRaise(once)
    /\ outcome' = "scan_failed"
    /\ UNCHANGED <<confVars, fileVars, loopVars, scanVars, ridVars, cycle, fetches,
                   waits, ridTrue, sent, outputs, prevOutcome, fetched>>

(* Lines 116-150: the pages of the cached document are searched for every code. *)
ScanOk ==
    /\ pc = "parse"
    /\ ~ScanRaises(input_data, old_file.data)
    /\ results' = ScanResults(input_data, old_file.data)
    /\ found_matches' = FoundMatches(results')
    /\ buffer' = BufferLines(input_data, results')
    /\ scanned' = TRUE
    /\ pc' = "report"
    /\ UNCHANGED <<confVars, fileVars, loopVars, ridVars, cycle, fetches, waits,
                   ridTrue, sent, outputs, outcome, prevOutcome, fetched>>

(* Lines 152, 167-168: no matches found. *)
ReportNone ==
    /\ pc = "report"
    /\ ~found_matches
    /\ pc' = AfterReturn(once)
    /\ outcome' = "no_matches"
    /\ UNCHANGED <<confVars, fileVars, loopVars, scanVars, ridVars, cycle, fetches,
                   waits, ridTrue, scanned, sent, outputs, prevOutcome, fetched>>

(* Lines 152-160: the output is printed; there is nobody to send it to. *)
ReportOnly ==
    /\ pc = "report"
    /\ found_matches
    /\ ~WillSend(number, recipients)
    /\ buffer' = Append(buffer, UrlLine(Url))
    /\ outputs' = Append(outputs, GetValueStrip(buffer'))
    /\ pc' = AfterReturn(once)
    /\ outcome' = "reported"
    /\ UNCHANGED <<confVars, fileVars, loopVars, results, found_matches, ridVars,
                   cycle, fetches, waits, ridTrue, scanned, sent, prevOutcome, fetched>>

(* Lines 152-166: the output is printed and posted. *)
SendOk ==
    /\ pc = "report"
    /\ found_matches
    /\ WillSend(number, recipients)
    /\ buffer' = Append(buffer, UrlLine(Url))
    /\ outputs' = Append(outputs, GetValueStrip(buffer'))
    /\ sent' = Append(sent, Payload(GetValueStrip(buffer'), number,
                                    EffectiveRecipients(number, recipients)))
    /\ pc' = AfterReturn(once)
    /\ outcome' = "notified"
    /\ UNCHANGED <<confVars, fileVars, loopVars, results, found_matches, ridVars,
                   cycle, fetches, waits, ridTrue, scanned, prevOutcome, fetched>>

(* Lines 152-166 and 76-77: the post times out or raise_for_status() raises. *)
SendFail ==
    /\ pc = "report"
    /\ found_matches
    /\ WillSend(number, recipients)
    /\ buffer' = Append(buffer, UrlLine(Url))
    /\ outputs' = Append(outputs, GetValueStrip(buffer'))
    /\ sent' = Append(sent, Payload(GetValueStrip(buffer'), number,
                                    EffectiveRecipients(number, recipients)))
    /\ pc' = AfterRaise(once)
    /\ outcome' = "post_failed"
    /\ UNCHANGED <<confVars, fileVars, loopVars, results, found_matches, ridVars,
                   cycle, fetches, waits, ridTrue, scanned, prevOutcome, fetched>>

----------------------------------------------------------------------------
(* The program *)

Next ==
    \/ DefaultOnce
    \/ DefaultSchedule
    \/ RunPending
    \/ LoopExhausted
    \/ LoopTry
    \/ LoopExit
    \/ GetOk
    \/ GetFail
    \/ RidIdentical
    \/ RidRename
    \/ RidCopyOpen
    \/ RidCopyWrite
    \/ RidCopyDone
    \/ DownloadReturn
    \/ Sleep
    \/ ScanRaise
    \/ ScanOk
    \/ ReportNone
    \/ ReportOnly
    \/ SendOk
    \/ SendFail

Spec == Init /\ [][Next]_vars

(* A started call of parse_and_notify_pdf runs on: the process is sequential, *)
(* the sleeps are finite and both transport calls carry timeout=10.          *)
JobStep ==
    \/ LoopExhausted \/ LoopTry \/ LoopExit
    \/ GetOk \/ GetFail
    \/ RidIdentical \/ RidRename \/ RidCopyOpen \/ RidCopyWrite \/ RidCopyDone
    \/ DownloadReturn \/ Sleep
    \/ ScanRaise \/ ScanOk
    \/ ReportNone \/ ReportOnly \/ SendOk \/ SendFail

(* The configurations under which progress is checked. *)
InitFair ==
    /\ Init
    /\ recipients = NoList
    /\ old_file \in {Absent, File(DocA)}

FairSpec == InitFair /\ [][Next]_vars /\ WF_vars(JobStep)

----------------------------------------------------------------------------
(* The scan on its own: any code, any one-page document *)

Alphabet == {"A", "Z", " ", "\n"}

Texts(maxLen) == UNION {[1..n -> Alphabet] : n \in 0..maxLen}

InitScan ==
    /\ once = TRUE
    /\ number = None
    /\ recipients = NoList
    /\ \E code \in Texts(MaxCodeLen) :
           input_data = << [code |-> code, extra |-> <<"e">>] >>
    /\ sameFs = TRUE
    /\ pc = "parse"
    /\ counter = 1
    /\ replaced = TRUE
    /\ \E page \in Texts(MaxPageLen) : old_file = File(<<page>>)
    /\ new_file = Absent
    /\ results = << >>
    /\ found_matches = FALSE
    /\ buffer = << >>
    /\ cycle = 1
    /\ fetches = 1
    /\ waits = 0
    /\ ridPre = Called(old_file, Absent)
    /\ ridRet = TRUE
    /\ ridTrue = TRUE
    /\ scanned = FALSE
    /\ sent = << >>
    /\ outputs = << >>
    /\ outcome = "running"
    /\ prevOutcome = "none"
    /\ fetched = old_file

NextScan ==
    \/ ScanRaise
    \/ ScanOk

SpecScan == InitScan /\ [][NextScan]_vars

----------------------------------------------------------------------------
(* replace_if_different on its own: any candidate, any target *)

Paths == {Absent} \cup {File(d) : d \in Docs}

InitRid ==
    /\ once = TRUE
    /\ number = None
    /\ recipients = NoList
    /\ input_data = InputA1
    /\ sameFs \in BOOLEAN
    /\ pc = "rid"
    /\ counter = 0
    /\ replaced = FALSE
    /\ old_file \in Paths
    /\ new_file \in Paths
    /\ results = << >>
    /\ found_matches = FALSE
    /\ buffer = << >>
    /\ cycle = 0
    /\ fetches = 0
    /\ waits = 0
    /\ ridPre = NoCall
    /\ ridRet = FALSE
    /\ ridTrue = FALSE
    /\ scanned = FALSE
    /\ sent = << >>
    /\ outputs = << >>
    /\ outcome = "none"
    /\ prevOutcome = "none"
    /\ fetched = Absent

(* The caller puts another file, or none, at the candidate path and calls again. *)
CallAgain ==
    /\ pc = "ret"
    /\ new_file' \in Paths
    /\ pc' = "rid"
    /\ UNCHANGED <<confVars, old_file, loopVars, scanVars, ridVars, histVars>>

NextRid ==
    \/ RidMissing
    \/ RidIdentical
    \/ RidRename
    \/ RidCopyOpen
    \/ RidCopyWrite
    \/ RidCopyDone
    \/ CallAgain

SpecRid == InitRid /\ [][NextRid]_vars

----------------------------------------------------------------------------
(* Properties *)

Returned == pc = "ret" /\ ridPre.called

(* C1: with an existing candidate, replace_if_different returns True exactly *)
(* when the target was missing or its bytes differed from the candidate's,  *)
(* and after a True return the target holds the candidate's former bytes.   *)
C1_ReplacesIffDifferent ==
    (Returned /\ ridPre.candidate.exists) =>
        /\ ridRet = (~ridPre.target.exists
                     \/ ridPre.target.data # ridPre.candidate.data)
        /\ ridRet => old_file = ridPre.candidate

C1_Witness ==
    /\ Returned
    /\ ridRet
    /\ ridPre.target.exists
    /\ ridPre.candidate.exists
    /\ old_file = ridPre.candidate
    /\ old_file # ridPre.target

(* C2: with a target that exists and is byte-identical to the candidate, *)
(* replace_if_different returns False and the target keeps its bytes.    *)
C2_IdenticalNotReplaced ==
    (/\ Returned
     /\ ridPre.candidate.exists
     /\ ridPre.target.exists
     /\ ridPre.candidate.data = ridPre.target.data) =>
        (~ridRet /\ old_file = ridPre.target)

C2_Witness ==
    /\ Returned
    /\ ridPre.candidate.exists
    /\ ridPre.target.exists
    /\ ridPre.candidate.data = ridPre.target.data
    /\ ~ridRet
    /\ fetches > 1

(* C3: in every state the cached document is absent or a complete document; *)
(* an empty or partially written target is never observable.                *)
C3_CacheAlwaysComplete ==
    old_file \in Paths

(* C4 as stated: a missing candidate ends the call with the error        *)
(* MissingCandidate, not with the 'not replaced' result, target untouched. *)
C4_MissingCandidateIsError ==
    (ridPre.called /\ ~ridPre.candidate.exists /\ pc \in {"ret", "MissingCandidate"}) =>
        (pc = "MissingCandidate" /\ old_file = ridPre.target)

(* C4 amended: a missing candidate makes replace_if_different return False, *)
(* the 'not replaced' result, and leaves the target untouched.              *)
C4_MissingCandidateReturnsFalse ==
    (Returned /\ ~ridPre.candidate.exists) =>
        (~ridRet /\ old_file = ridPre.target /\ new_file = ridPre.candidate)

C4_Witness ==
    /\ Returned
    /\ ~ridPre.candidate.exists
    /\ ridPre.target.exists
    /\ ~ridRet
    /\ old_file = ridPre.target

(* C5: a job run in which no call of replace_if_different returned True and *)
(* nothing raised ends exhausted after exactly MaxAttempts GET requests.     *)
Raised == {"get_failed", "scan_failed", "post_failed"}

Ended == pc \in {"idle", "exited", "crashed"} /\ cycle > 0

C6_ScanOnlyAfterReplace ==
    (pc \in {"parse", "report"} \/ scanned) => ridTrue

C6_Witness ==
    /\ scanned
    /\ ridTrue
    /\ fetches > 1

(* C7: an exhausted job run has not scanned and has not sent, the process *)
(* is alive (back in the scheduler loop, or exited normally with --once), *)
(* and the job run that follows starts with its counter at zero.          *)
C7_ExhaustedSkipsCycle ==
    /\ [](outcome = "exhausted" =>
            /\ ~scanned
            /\ sent = << >>
            /\ outputs = << >>
            /\ pc = IF once THEN "exited" ELSE "idle")
    /\ [][(outcome = "exhausted" /\ pc' # pc) =>
            (pc' = "loop" /\ counter' = 0 /\ ~replaced' /\ cycle' = cycle + 1)]_vars

C7_Witness ==
    /\ prevOutcome = "exhausted"
    /\ cycle = 2
    /\ pc = "get"
    /\ counter = 1

(* C8: in scheduled mode a transport failure of the GET or of the post *)
(* ends only the job run: the scheduler loop keeps running.            *)
C8_SchedulerSurvivesFailure ==
    (~once /\ outcome \in {"get_failed", "post_failed"}) => pc = "idle"

(* The in-page matches of a code: what the matcher reports for one page. *)
InPage(code, page) == FindNearMatches(Normalize(code), Normalize(page))

(* The number of matches of a code on the pages before page p. *)
RECURSIVE Before(_, _, _)
Before(code, pages, p) ==
    IF p <= 1 THEN 0
    ELSE Before(code, pages, p - 1) + Len(InPage(code, pages[p - 1]))

Total(code, pages) == Before(code, pages, Len(pages) + 1)

HasMatch(code_info, pages) ==
    \E p \in 1..Len(pages) : InPage(code_info.code, pages[p]) # << >>

Codes(infos) == [k \in 1..Len(infos) |-> infos[k].code]

IsFoundLine(line) == line.fmt = "Found {n} matches for '{s}'"

FoundCodes(lines) ==
    LET found == SelectSeq(lines, IsFoundLine)
    IN  [k \in 1..Len(found) |-> found[k].s]

ScanDone == scanned /\ outcome # "scan_failed" /\ pc # "parse"

C9_WitnessNoMatch ==
    /\ outcome = "no_matches"
    /\ outputs = << >>
    /\ sent = << >>

(* C10: each code's match list is the page-by-page concatenation of its    *)
(* in-page matches (those of page p follow those of every earlier page, in *)
(* their in-page order), so its length is the sum of the per-page match    *)
(* counts; there is one list per configured code, in configuration order,  *)
(* and the codes are reported in that order.                               *)
C10_MatchesInPageAndQueryOrder ==
    ScanDone =>
        LET pages == old_file.data
        IN  /\ Len(results) = Len(input_data)
            /\ \A k \in 1..Len(results) :
                 LET code == input_data[k].code
                 IN  /\ Len(results[k]) = Total(code, pages)
                     /\ \A p \in 1..Len(pages) :
                          \A i \in 1..Len(InPage(code, pages[p])) :
                             results[k][Before(code, pages, p) + i]
                                 = InPage(code, pages[p])[i]
            /\ FoundCodes(buffer)
                 = Codes(SelectSeq(input_data, LAMBDA c : HasMatch(c, pages)))

C10_Witness ==
    /\ ScanDone
    /\ Len(old_file.data) = 2
    /\ \E k \in 1..Len(results) :
         /\ Len(results[k]) = 2
         /\ results[k][1].start = 1
         /\ results[k][2].start = 0
    /\ Len(SelectSeq(buffer, IsFoundLine)) = 2

(* The text without its whitespace characters, and the positions at which *)
(* a pattern occurs in a text.                                            *)
NoWs(text) == SelectSeq(text, LAMBDA c : c \notin Whitespace)

Occurrences(pattern, text) ==
    {i \in 1..Len(text) :
        /\ i + Len(pattern) - 1 <= Len(text)
        /\ \A j \in 1..Len(pattern) : text[i + j - 1] = pattern[j]}

(* C11: for a non-empty pattern the matches are exactly the occurrences of *)
(* the pattern in the page, overlapping ones included, from left to right, *)
(* each with the pattern as its text and distance 0; an empty page has no  *)
(* match; an empty pattern ends the scan with an error.                    *)
C11_ExactOccurrences ==
    LET P == NoWs(input_data[1].code)
        H == NoWs(old_file.data[1])
    IN  /\ pc # "parse" => ((outcome = "scan_failed") = (P = << >>))
        /\ pc = "report" =>
            /\ Len(results[1]) = Cardinality(Occurrences(P, H))
            /\ \A i \in 1..Len(results[1]) :
                 /\ results[1][i].start + 1 \in Occurrences(P, H)
                 /\ results[1][i].end = results[1][i].start + Len(P)
                 /\ results[1][i].matched = P
                 /\ results[1][i].dist = 0
                 /\ i > 1 => results[1][i - 1].start < results[1][i].start
            /\ H = << >> => results[1] = << >>

C11_Witness ==
    /\ pc = "report"
    /\ Len(NoWs(input_data[1].code)) = 2
    /\ Len(results[1]) = 2
    /\ results[1][2].start = results[1][1].start + 1

(* C12: the normalised text has no whitespace character and is the text's   *)
(* non-whitespace characters in order; normalising it again changes nothing; *)
(* the code and the page are both normalised before they are matched.        *)
C12_NormalizeRemovesWhitespace ==
    LET code == input_data[1].code
        page == old_file.data[1]
    IN  /\ \A t \in {code, page} :
             /\ Normalize(t) = NoWs(t)
             /\ \A i \in 1..Len(Normalize(t)) : Normalize(t)[i] \notin Whitespace
             /\ Normalize(Normalize(t)) = Normalize(t)
        /\ pc = "report" =>
             /\ \A i \in 1..Len(results[1]) : results[1][i].matched = NoWs(code)
             /\ Len(results[1]) = Cardinality(Occurrences(NoWs(code), NoWs(page)))

C12_Witness ==
    /\ pc = "report"
    /\ Len(results[1]) = 1
    /\ Len(input_data[1].code) > Len(NoWs(input_data[1].code))
    /\ Len(old_file.data[1]) > Len(NoWs(old_file.data[1])) + 1
    /\ "\n" \in {old_file.data[1][i] : i \in 1..Len(old_file.data[1])}

(* C13: every wait lies between two GET requests of a job run: a GET is    *)
(* issued only when every earlier attempt was followed by a wait, and a    *)
(* job run that has ended after k attempts has made k - 1 waits.           *)
C13_WaitsOnlyBetweenAttempts ==
    /\ pc = "get" => waits = fetches
    /\ pc \in {"rid", "copy", "ret", "sleep", "parse", "report"} => waits = fetches - 1
    /\ (Ended /\ fetches > 0) => waits = fetches - 1

(* C14: a job run that has started ends (by the scan and report, by        *)
(* exhaustion or by a raise), and it never issues more than MaxAttempts    *)
(* GET requests, whatever the GETs return.                                 *)
C14_CycleTerminates ==
    /\ [](fetches <= MaxAttempts /\ counter <= MaxAttempts + 1)
    /\ (outcome = "running") ~> (outcome # "running")

C14_Witness ==
    /\ outcome = "get_failed"
    /\ fetches = MaxAttempts
    /\ waits = MaxAttempts - 1

JobPcs == {"loop", "get", "rid", "copy", "ret", "sleep", "parse", "report"}

(* C15: at most one job run is in progress: a job run starts only when the *)
(* one before it has ended, and the process is inside the job exactly      *)
(* while that one run is in progress.                                      *)
C15_OneRunAtATime ==
    /\ prevOutcome # "running"
    /\ (pc \in JobPcs) = (outcome = "running")
    /\ (cycle >= 2 /\ ~once) => prevOutcome \in {"exhausted", "no_matches", "reported", "notified"}

C15_Witness ==
    /\ cycle = 2
    /\ pc = "sleep"
    /\ outcome = "running"
    /\ prevOutcome = "notified"
    /\ waits = 1

(* C16: the cached document changes only inside a call of                   *)
(* replace_if_different that returns True; a call that returns False leaves *)
(* it as it was, and so does every other step.                              *)
C16_CacheChangesOnlyByReplace ==
    /\ []((Returned /\ ~ridRet) => old_file = ridPre.target)
    /\ []((pc = "copy") => (ridPre.called /\ ShouldReplace(ridPre.candidate, ridPre.target)))
    /\ [][(old_file' # old_file) =>
            /\ pc \in {"rid", "copy"}
            /\ pc' \in {"copy", "ret"}
            /\ pc' = "ret" => (ridRet' /\ old_file' = ridPre'.candidate)]_vars

C16_Witness ==
    /\ outcome = "post_failed"
    /\ cycle = 2
    /\ ridPre.target.exists
    /\ old_file = ridPre.candidate
    /\ old_file # ridPre.target

(* C17: once a document with a match has been promoted and a sender number *)
(* is configured, its notification is eventually delivered.                *)
C17_EventuallyDelivered ==
    (pc = "report" /\ ridTrue /\ found_matches /\ TruthyStr(number))
        ~> (outcome = "notified")

(* C18: when the scan begins the cache holds the bytes of the last GET of   *)
(* this job run and the candidate no longer exists; the scan's results are  *)
(* those of the cached document.                                            *)
C18_ScanReadsFetchedDocument ==
    /\ pc \in {"parse", "report"} =>
         (old_file = fetched /\ old_file.exists /\ ~new_file.exists)
    /\ ScanDone =>
         \A k \in 1..Len(input_data) :
            Len(results[k]) = Total(input_data[k].code, fetched.data)

C18_Witness ==
    /\ pc = "parse"
    /\ ~sameFs
    /\ fetches = 2
    /\ Len(fetched.data) = 2
    /\ old_file = fetched
    /\ ridPre.target.exists

(* C19: at most one payload is posted per job run, and only with matches    *)
(* and a sender number; its recipients are the configured ones, or the      *)
(* sender alone when none are configured; a job run that found matches and  *)
(* has a sender number posts one; without a sender number nothing is posted. *)
C19_SendOnceToDefaultedRecipients ==
    /\ Len(sent) <= 1
    /\ number = None => sent = << >>
    /\ sent # << >> =>
         /\ found_matches
         /\ number # None
         /\ sent[1].number = number
         /\ sent[1].recipients =
              IF recipients.given /\ recipients.items # << >>
              THEN recipients.items ELSE <<number>>
    /\ (sent # << >>) = (outcome \in {"notified", "post_failed"})
    /\ outcome = "reported" => number = None

C19_Witness ==
    /\ outcome = "notified"
    /\ recipients = List(<< >>)
    /\ Len(sent) = 1
    /\ sent[1].recipients = <<number>>

====
